---- MODULE Spec2Model ----
(***************************************************************************)
(* Model of bot.py: a Telegram relay bot.  The routing configuration       *)
(* (ORIGIN_CHATS, DESTINATION_CHATS, ADMINS, IS_PAUSED) is module-level    *)
(* state, config.json is the persisted record, three commands open a       *)
(* ConversationHandler dialog, and process_message forwards rewritten      *)
(* channel texts to every destination.                                     *)
(*                                                                         *)
(* A text is a sequence of characters (one-character strings).  The three  *)
(* Chinese rule patterns are written one romanised syllable per character  *)
(* ("fa" for the first character of the first pattern, and so on), so      *)
(* that the characters the patterns share stay shared.                     *)
(***************************************************************************)
EXTENDS Integers, Sequences, FiniteSets, TLC

\* ------------------------------------------------------------------ text

\* str.split() separators (only the blank occurs in the modelled inputs)
IsSpace(c) == c = " "

Digits == <<"0", "1", "2", "3", "4", "5", "6", "7", "8", "9">>

IsDigit(c) == \E i \in 1..Len(Digits) : Digits[i] = c

DigitVal(c) == (CHOOSE i \in 1..Len(Digits) : Digits[i] = c) - 1

\* str.split(): the maximal runs of non-blank characters, in order
RECURSIVE SplitFrom(_, _, _)
SplitFrom(s, i, cur) ==
    IF i > Len(s)
    THEN IF cur = <<>> THEN <<>> ELSE <<cur>>
    ELSE IF IsSpace(s[i])
         THEN (IF cur = <<>> THEN <<>> ELSE <<cur>>) \o SplitFrom(s, i + 1, <<>>)
         ELSE SplitFrom(s, i + 1, Append(cur, s[i]))

Split(s) == SplitFrom(s, 1, <<>>)

\* str.isdigit(): non-empty and every character a digit
AllDigits(t) == Len(t) > 0 /\ \A i \in 1..Len(t) : IsDigit(t[i])

RECURSIVE NatOf(_)
NatOf(t) == IF t = <<>> THEN 0 ELSE 10 * NatOf(SubSeq(t, 1, Len(t) - 1)) + DigitVal(t[Len(t)])

\* int(token) succeeds: an optional sign followed by at least one digit
IsInt(t) ==
    \/ AllDigits(t)
    \/ Len(t) > 1 /\ t[1] \in {"-", "+"} /\ AllDigits(Tail(t))

\* int(token), for a token int() accepts
IntOf(t) ==
    IF t[1] = "-" THEN 0 - NatOf(Tail(t))
    ELSE IF t[1] = "+" THEN NatOf(Tail(t))
    ELSE NatOf(t)

\* str.startswith(p)
StartsWith(s, p) == Len(s) >= Len(p) /\ SubSeq(s, 1, Len(p)) = p

\* p occurs in s at position i
OccursAt(s, p, i) == i + Len(p) - 1 <= Len(s) /\ SubSeq(s, i, i + Len(p) - 1) = p

\* p in s
Contains(s, p) == \E i \in 1..(Len(s) + 1) : OccursAt(s, p, i)

\* s.replace(p, r) for a non-empty p: every non-overlapping occurrence, left to right
RECURSIVE ReplaceFrom(_, _, _, _)
ReplaceFrom(s, p, r, i) ==
    IF i > Len(s) THEN <<>>
    ELSE IF OccursAt(s, p, i) THEN r \o ReplaceFrom(s, p, r, i + Len(p))
    ELSE <<s[i]>> \o ReplaceFrom(s, p, r, i + 1)

Replace(s, p, r) == ReplaceFrom(s, p, r, 1)

SeqToSet(q) == {q[i] : i \in 1..Len(q)}

\* ------------------------------------------------------------ constants

\* SUPER_ADMIN_LIST of the environment; user names are texts
SUPER_ADMINS == {<<"r">>}

\* the users that send updates: the super admin and one other
Users == {<<"r">>, <<"a">>}

\* ConversationHandler.END and the three dialog states
END == "END"
SET_ORIGIN == "SET_ORIGIN"
SET_DESTINATION == "SET_DESTINATION"
ADD_ADMIN == "ADD_ADMIN"

CONFIG_KEYS == {"origin_chats", "destination_chats", "admins"}

\* ------------------------------------------------------------------ state

VARIABLES
    phase,              \* "boot" (before line 74), "running", "crashed" (import raised)
    file,               \* config.json
    ORIGIN_CHATS,
    DESTINATION_CHATS,
    ADMINS,
    IS_PAUSED,
    conversations,      \* the ConversationHandler's state per user
    fwd,                \* the deliveries process_message attempted for the last update
    last,               \* the update handled last and what its handler replied
    failures            \* calls of save_config that raised so far

cfgvars == <<ORIGIN_CHATS, DESTINATION_CHATS, ADMINS, IS_PAUSED>>

vars == <<phase, file, ORIGIN_CHATS, DESTINATION_CHATS, ADMINS, IS_PAUSED,
          conversations, fwd, last, failures>>

\* ------------------------------------------------------------ persistence

AbsentFile ==
    [kind |-> "absent", keys |-> {}, origin_chats |-> {}, destination_chats |-> {},
     admins |-> {}]

\* not JSON (for one, truncated by a write that failed), or JSON of another shape
MalformedFile ==
    [kind |-> "malformed", keys |-> {}, origin_chats |-> {}, destination_chats |-> {},
     admins |-> {}]

\* a JSON object holding the keys `keys`; a JSON list is kept as the set of its members
ObjectFile(keys, o, d, a) ==
    [kind |-> "object", keys |-> keys, origin_chats |-> o, destination_chats |-> d,
     admins |-> a]

\* load_config had it asked the record for "origins" instead of "origin_chats"
load_config_misnamed(f) ==
    IF f.kind = "absent"
    THEN [raised |-> FALSE, ORIGIN_CHATS |-> {}, DESTINATION_CHATS |-> {},
          ADMINS |-> SUPER_ADMINS]
    ELSE IF f.kind = "malformed"
    THEN [raised |-> TRUE, ORIGIN_CHATS |-> {}, DESTINATION_CHATS |-> {}, ADMINS |-> {}]
    ELSE [raised |-> FALSE,
          ORIGIN_CHATS |-> {},
          DESTINATION_CHATS |->
              IF "destination_chats" \in f.keys THEN f.destination_chats ELSE {},
          ADMINS |-> IF "admins" \in f.keys THEN f.admins ELSE SUPER_ADMINS]

\* load_config(): the configuration read from f, or raised when an exception escapes
load_config(f) ==
    IF f.kind = "absent"
    THEN [raised |-> FALSE, ORIGIN_CHATS |-> {}, DESTINATION_CHATS |-> {},
          ADMINS |-> SUPER_ADMINS]
    ELSE IF f.kind = "malformed"
    THEN [raised |-> TRUE, ORIGIN_CHATS |-> {}, DESTINATION_CHATS |-> {}, ADMINS |-> {}]
    ELSE [raised |-> FALSE,
          ORIGIN_CHATS |-> IF "origin_chats" \in f.keys THEN f.origin_chats ELSE {},
          DESTINATION_CHATS |->
              IF "destination_chats" \in f.keys THEN f.destination_chats ELSE {},
          ADMINS |-> IF "admins" \in f.keys THEN f.admins ELSE SUPER_ADMINS]

\* what a call of save_config can do: write the record, fail in open() (the record
\* stays), or fail while writing (open(.., "w") has truncated the record)
SaveOutcomes == {"ok", "open_fails", "write_fails"}

SaveRaises(outcome) == outcome # "ok"

\* how many calls of save_config may raise in one run
MaxSaveFailures == 1

\* a call of save_config raises at most MaxSaveFailures times in a run
may_fail(outcome) == SaveRaises(outcome) => failures < MaxSaveFailures

\* save_config had it added to the lists of the record instead of overwriting them
save_config_append(o, d, a, f, outcome) ==
    IF outcome = "ok"
    THEN ObjectFile(CONFIG_KEYS, f.origin_chats \cup o, f.destination_chats \cup d,
                    f.admins \cup a)
    ELSE IF outcome = "open_fails" THEN f
    ELSE MalformedFile

\* save_config had it left the admins of the record as they were
save_config_stale_admins(o, d, a, f, outcome) ==
    IF outcome = "ok" THEN ObjectFile(CONFIG_KEYS, o, d, f.admins)
    ELSE IF outcome = "open_fails" THEN f
    ELSE MalformedFile

\* save_config had it written back the origins it found in the record
save_config_stale_origins(o, d, a, f, outcome) ==
    IF outcome = "ok" THEN ObjectFile(CONFIG_KEYS, f.origin_chats, d, a)
    ELSE IF outcome = "open_fails" THEN f
    ELSE MalformedFile

\* save_config(config): the record left behind
save_config(o, d, a, f, outcome) ==
    IF outcome = "ok" THEN ObjectFile(CONFIG_KEYS, o, d, a)
    ELSE IF outcome = "open_fails" THEN f
    ELSE MalformedFile

\* the records config.json may hold when the process first starts
InitFiles ==
    { AbsentFile,
      MalformedFile,
      ObjectFile(CONFIG_KEYS, {1}, {-1, 1, 2}, {<<"r">>, <<"a">>}),
      ObjectFile(CONFIG_KEYS, {}, {}, {<<"b">>}),
      ObjectFile({"destination_chats"}, {}, {1}, {}) }

\* ---------------------------------------------------------------- updates

NoText == <<>>

\* the update handled last: its sender, the command (or "text", "channel_post",
\* "boot"), the handler that ran ("none" when no handler took it), the replies it
\* sent, whether an exception left the handler, what followed the name of an
\* entry command, and whether a payload of ids found those very ids set and saved
Handled(user, cmd, op, replies, raised) ==
    [user |-> user, cmd |-> cmd, op |-> op, replies |-> replies, raised |-> raised,
     args |-> NoText, again |-> FALSE]

WithArgs(h, args) == [h EXCEPT !.args = args]

Again(h, old, ids) ==
    [h EXCEPT !.again = (old = ids /\ file = ObjectFile(CONFIG_KEYS, ORIGIN_CHATS,
                                                        DESTINATION_CHATS, ADMINS))]

\* no delivery attempted
NoForward ==
    [chat |-> 0, source |-> NoText, text |-> NoText, attempts |-> <<>>, failed |-> {}]

Init ==
    /\ phase = "boot"
    /\ file \in InitFiles
    /\ ORIGIN_CHATS = {}
    /\ DESTINATION_CHATS = {}
    /\ ADMINS = {}
    /\ IS_PAUSED = FALSE
    /\ conversations = [u \in Users |-> END]
    /\ fwd = NoForward
    /\ last = Handled(NoText, "boot", "none", <<>>, FALSE)
    /\ failures = 0

\* lines 74-78: the module-level load when the process starts
Startup ==
    /\ phase = "boot"
    /\ LET c == load_config(file) IN
        /\ phase' = IF c.raised THEN "crashed" ELSE "running"
        /\ ORIGIN_CHATS' = c.ORIGIN_CHATS
        /\ DESTINATION_CHATS' = c.DESTINATION_CHATS
        /\ ADMINS' = c.ADMINS
        /\ IS_PAUSED' = FALSE
        /\ last' = Handled(NoText, "boot", "load_config", <<>>, c.raised)
    /\ UNCHANGED <<file, conversations, fwd, failures>>

\* the process stops and is started again: only config.json survives
Restart ==
    /\ phase = "running"
    /\ phase' = "boot"
    /\ ORIGIN_CHATS' = {}
    /\ DESTINATION_CHATS' = {}
    /\ ADMINS' = {}
    /\ IS_PAUSED' = FALSE
    /\ conversations' = [u \in Users |-> END]
    /\ fwd' = NoForward
    /\ last' = Handled(NoText, "boot", "none", <<>>, FALSE)
    /\ UNCHANGED <<file, failures>>

\* Application.process_update handles one update at a time (the application is
\* built without concurrent_updates): a handler starts when none is in progress
Ready == phase = "running"

\* ------------------------------------------------------------- inputs

\* texts users send outside commands
UserTexts ==
    { <<"1", " ", " ", "1">>,
      <<"1", " ", "-", "1", " ", "2">>,
      <<"1", " ", "x">>,
      <<"@", "b">> }

\* the text after the name of an entry command, and after /rm_admin
StartArgs(cmd) == IF cmd = "add_admin" THEN { NoText, <<"@", "b">> } ELSE { NoText, <<"1">> }

RmArgs == { NoText, <<"1">>, <<"2">> }

\* ----------------------------------------------------------- role checks

\* check_admin had it let every user through
check_admin_open(u) == TRUE

\* check_admin's test (lines 101-103)
check_admin(u) == u \in SUPER_ADMINS \/ u \in (ADMINS \ SUPER_ADMINS)

\* -------------------------------------------------------- dialog handlers

\* set_origin_start had it applied the ids attached to the command at once
set_origin_start_inline(u, args) ==
    /\ Ready
    /\ conversations[u] = END
    /\ IF ~check_admin(u)
       THEN /\ conversations' = [conversations EXCEPT ![u] = END]
            /\ last' = WithArgs(Handled(u, "set_origin", "set_origin_start",
                                        <<"permission_denied">>, FALSE), args)
            /\ UNCHANGED <<ORIGIN_CHATS, file>>
       ELSE IF args = NoText
       THEN /\ conversations' = [conversations EXCEPT ![u] = SET_ORIGIN]
            /\ last' = WithArgs(Handled(u, "set_origin", "set_origin_start",
                                        <<"prompt_origin">>, FALSE), args)
            /\ UNCHANGED <<ORIGIN_CHATS, file>>
       ELSE LET toks == Split(args)
                ok == \A i \in 1..Len(toks) : IsInt(toks[i]) IN
            /\ conversations' = [conversations EXCEPT ![u] = END]
            /\ ORIGIN_CHATS' = IF ok THEN {IntOf(toks[i]) : i \in 1..Len(toks)}
                               ELSE ORIGIN_CHATS
            /\ file' = IF ok
                       THEN save_config(ORIGIN_CHATS', DESTINATION_CHATS, ADMINS, file, "ok")
                       ELSE file
            /\ last' = WithArgs(Handled(u, "set_origin", "set_origin_start",
                                        IF ok THEN <<"origins_set">> ELSE <<"invalid_ids">>,
                                        FALSE), args)
    /\ fwd' = NoForward
    /\ UNCHANGED <<phase, DESTINATION_CHATS, ADMINS, IS_PAUSED, failures>>

\* lines 126-132: /set_origin with no conversation open (an entry point)
set_origin_start(u, args) ==
    /\ Ready
    /\ conversations[u] = END
    /\ IF check_admin(u)
       THEN /\ conversations' = [conversations EXCEPT ![u] = SET_ORIGIN]
            /\ last' = WithArgs(Handled(u, "set_origin", "set_origin_start",
                                        <<"prompt_origin">>, FALSE), args)
       ELSE /\ conversations' = [conversations EXCEPT ![u] = END]
            /\ last' = WithArgs(Handled(u, "set_origin", "set_origin_start",
                                        <<"permission_denied">>, FALSE), args)
    /\ fwd' = NoForward
    /\ UNCHANGED <<phase, file, cfgvars, failures>>

\* lines 158-164
set_destination_start(u, args) ==
    /\ Ready
    /\ conversations[u] = END
    /\ IF check_admin(u)
       THEN /\ conversations' = [conversations EXCEPT ![u] = SET_DESTINATION]
            /\ last' = WithArgs(Handled(u, "set_destination", "set_destination_start",
                                        <<"prompt_destination">>, FALSE), args)
       ELSE /\ conversations' = [conversations EXCEPT ![u] = END]
            /\ last' = WithArgs(Handled(u, "set_destination", "set_destination_start",
                                        <<"permission_denied">>, FALSE), args)
    /\ fwd' = NoForward
    /\ UNCHANGED <<phase, file, cfgvars, failures>>

\* add_admin_start had it asked check_admin as the other entry commands do
add_admin_start_any_admin(u, args) ==
    /\ Ready
    /\ conversations[u] = END
    /\ IF ~check_admin(u)
       THEN /\ conversations' = [conversations EXCEPT ![u] = END]
            /\ last' = WithArgs(Handled(u, "add_admin", "add_admin_start",
                                        <<"permission_denied">>, FALSE), args)
       ELSE /\ conversations' = [conversations EXCEPT ![u] = ADD_ADMIN]
            /\ last' = WithArgs(Handled(u, "add_admin", "add_admin_start",
                                        <<"prompt_admin">>, FALSE), args)
    /\ fwd' = NoForward
    /\ UNCHANGED <<phase, file, cfgvars, failures>>

\* lines 190-198
add_admin_start(u, args) ==
    /\ Ready
    /\ conversations[u] = END
    /\ IF u \notin SUPER_ADMINS
       THEN /\ conversations' = [conversations EXCEPT ![u] = END]
            /\ last' = WithArgs(Handled(u, "add_admin", "add_admin_start",
                                        <<"only_super_admins">>, FALSE), args)
       ELSE /\ conversations' = [conversations EXCEPT ![u] = ADD_ADMIN]
            /\ last' = WithArgs(Handled(u, "add_admin", "add_admin_start",
                                        <<"prompt_admin">>, FALSE), args)
    /\ fwd' = NoForward
    /\ UNCHANGED <<phase, file, cfgvars, failures>>

\* line 138: every token through int(); ok is FALSE when int() raises ValueError
channel_ids(user_input) ==
    LET toks == Split(user_input) IN
    [ok |-> \A i \in 1..Len(toks) : IsInt(toks[i]),
     ids |-> {IntOf(toks[i]) : i \in {j \in 1..Len(toks) : IsInt(toks[j])}}]

\* channel_ids of every text users send, computed once
Parsed == [t \in UserTexts |-> channel_ids(t)]

\* set_origin_handle had it added the ids to the origins
new_origins_merge(old, ids) == old \cup ids

\* line 144: the origins after set_origin_handle took ids
new_origins(old, ids) == ids

\* line 176
new_destinations(old, ids) == ids

\* the dialog handlers had they returned the state they were called in
handled_state_same(state) == state

\* the conversation state a dialog handler returns after it consumed a payload
\* (lines 156, 188, 218)
handled_state(state) == END

\* lines 134-156: the text sent while the conversation is in SET_ORIGIN
set_origin_handle(u, user_input, outcome) ==
    /\ Ready
    /\ may_fail(outcome)
    /\ conversations[u] = SET_ORIGIN
    /\ LET parsed == Parsed[user_input] IN
       IF parsed.ok
       THEN /\ ORIGIN_CHATS' = new_origins(ORIGIN_CHATS, parsed.ids)
            /\ file' = save_config(ORIGIN_CHATS', DESTINATION_CHATS, ADMINS, file, outcome)
            /\ failures' = failures + (IF SaveRaises(outcome) THEN 1 ELSE 0)
            /\ last' = Again(Handled(u, "text", "set_origin_handle",
                                     IF SaveRaises(outcome) THEN <<"error">>
                                     ELSE <<"origins_set">>, FALSE),
                             ORIGIN_CHATS, parsed.ids)
       ELSE /\ outcome = "ok"
            /\ UNCHANGED <<ORIGIN_CHATS, file, failures>>
            /\ last' = Handled(u, "text", "set_origin_handle",
                               <<"invalid_ids">>, FALSE)
    /\ conversations' = [conversations EXCEPT ![u] = handled_state(SET_ORIGIN)]
    /\ fwd' = NoForward
    /\ UNCHANGED <<phase, DESTINATION_CHATS, ADMINS, IS_PAUSED>>

\* lines 166-188
set_destination_handle(u, user_input, outcome) ==
    /\ Ready
    /\ may_fail(outcome)
    /\ conversations[u] = SET_DESTINATION
    /\ LET parsed == Parsed[user_input] IN
       IF parsed.ok
       THEN /\ DESTINATION_CHATS' = new_destinations(DESTINATION_CHATS, parsed.ids)
            /\ file' = save_config(ORIGIN_CHATS, DESTINATION_CHATS', ADMINS, file, outcome)
            /\ failures' = failures + (IF SaveRaises(outcome) THEN 1 ELSE 0)
            /\ last' = Again(Handled(u, "text", "set_destination_handle",
                                     IF SaveRaises(outcome) THEN <<"error">>
                                     ELSE <<"destinations_set">>, FALSE),
                             DESTINATION_CHATS, parsed.ids)
       ELSE /\ outcome = "ok"
            /\ UNCHANGED <<DESTINATION_CHATS, file, failures>>
            /\ last' = Handled(u, "text", "set_destination_handle",
                               <<"invalid_ids">>, FALSE)
    /\ conversations' = [conversations EXCEPT ![u] = handled_state(SET_DESTINATION)]
    /\ fwd' = NoForward
    /\ UNCHANGED <<phase, ORIGIN_CHATS, ADMINS, IS_PAUSED>>

\* lines 200-218
add_admin_handle(u, user_input, outcome) ==
    /\ Ready
    /\ may_fail(outcome)
    /\ conversations[u] = ADD_ADMIN
    /\ IF ~StartsWith(user_input, <<"@">>)
       THEN /\ conversations' = [conversations EXCEPT ![u] = ADD_ADMIN]
            /\ last' = Handled(u, "text", "add_admin_handle",
                               <<"invalid_username">>, FALSE)
            /\ outcome = "ok"
            /\ UNCHANGED <<ADMINS, file, failures>>
       ELSE LET handle == Tail(user_input) IN
            /\ ADMINS' = ADMINS \cup {handle}
            /\ file' = save_config(ORIGIN_CHATS, DESTINATION_CHATS, ADMINS', file, outcome)
            /\ failures' = failures + (IF SaveRaises(outcome) THEN 1 ELSE 0)
            /\ last' = Handled(u, "text", "add_admin_handle",
                               IF SaveRaises(outcome) THEN <<"error">>
                               ELSE <<"admin_added">>, FALSE)
            /\ conversations' = [conversations EXCEPT ![u] = handled_state(ADD_ADMIN)]
    /\ fwd' = NoForward
    /\ UNCHANGED <<phase, ORIGIN_CHATS, DESTINATION_CHATS, IS_PAUSED>>

\* cancel had it answered and left the conversation open
cancel_stay(u) ==
    /\ Ready
    /\ conversations[u] # END
    /\ last' = Handled(u, "cancel", "cancel", <<"cancelled">>, FALSE)
    /\ fwd' = NoForward
    /\ UNCHANGED <<phase, file, cfgvars, conversations, failures>>

\* cancel had it ended every open conversation
cancel_all(u) ==
    /\ Ready
    /\ conversations[u] # END
    /\ conversations' = [v \in Users |-> END]
    /\ last' = Handled(u, "cancel", "cancel", <<"cancelled">>, FALSE)
    /\ fwd' = NoForward
    /\ UNCHANGED <<phase, file, cfgvars, failures>>

\* lines 220-224: /cancel is the fallback of an open conversation
cancel(u) ==
    /\ Ready
    /\ conversations[u] # END
    /\ conversations' = [conversations EXCEPT ![u] = END]
    /\ last' = Handled(u, "cancel", "cancel", <<"cancelled">>, FALSE)
    /\ fwd' = NoForward
    /\ UNCHANGED <<phase, file, cfgvars, failures>>

\* the conversation handler had it allow_reentry: an entry command sent while the
\* sender's conversation is open starts the dialog of that command
unhandled_reentry(u, cmd) ==
    /\ Ready
    /\ \/ cmd \in {"set_origin", "set_destination", "add_admin"} /\ conversations[u] # END
       \/ cmd = "text" /\ conversations[u] = END
    /\ conversations' =
          IF cmd = "set_origin" /\ check_admin(u)
          THEN [conversations EXCEPT ![u] = SET_ORIGIN]
          ELSE IF cmd = "set_destination" /\ check_admin(u)
          THEN [conversations EXCEPT ![u] = SET_DESTINATION]
          ELSE IF cmd = "add_admin" /\ u \in SUPER_ADMINS
          THEN [conversations EXCEPT ![u] = ADD_ADMIN]
          ELSE conversations
    /\ last' = Handled(u, cmd, "none", <<>>, FALSE)
    /\ fwd' = NoForward
    /\ UNCHANGED <<phase, file, cfgvars, failures>>

\* lines 339-347, 358: an update no handler takes -- an entry command while the
\* sender's conversation is open, or a text while it is not
unhandled(u, cmd) ==
    /\ Ready
    /\ \/ cmd \in {"set_origin", "set_destination", "add_admin"} /\ conversations[u] # END
       \/ cmd = "text" /\ conversations[u] = END
    /\ last' = Handled(u, cmd, "none", <<>>, FALSE)
    /\ fwd' = NoForward
    /\ UNCHANGED <<phase, file, cfgvars, conversations, failures>>

\* ------------------------------------------------------- plain commands

\* list(S): the members of a set in some order
RECURSIVE Orders(_)
Orders(S) ==
    IF S = {} THEN {<<>>}
    ELSE UNION {{<<x>> \o q : q \in Orders(S \ {x})} : x \in S}

\* rm_admin had it listed every admin
removable_all == ADMINS

\* line 234: the admins rm_admin lists and removes by number
removable == ADMINS \ SUPER_ADMINS

\* context.args of every /rm_admin that arrives, computed once
RmTokens == [t \in RmArgs |-> Split(t)]

\* lines 226-255; admin_list is the order list() gave the listed admins
rm_admin(u, argtext, admin_list, outcome) ==
    /\ Ready
    /\ may_fail(outcome)
    /\ admin_list \in Orders(removable)
    /\ LET args == RmTokens[argtext]
           idx == NatOf(args[1]) - 1
           reply(r, raised) == Handled(u, "rm_admin", "rm_admin", r, raised)
       IN
       IF ~check_admin(u)
       THEN /\ last' = reply(<<"permission_denied">>, FALSE)
            /\ outcome = "ok"
            /\ UNCHANGED <<ADMINS, file, failures>>
       ELSE IF ADMINS \ SUPER_ADMINS = {}
       THEN /\ last' = reply(<<"cannot_remove">>, FALSE)
            /\ outcome = "ok"
            /\ UNCHANGED <<ADMINS, file, failures>>
       ELSE IF ~(Len(args) > 0 /\ AllDigits(args[1]))
       THEN /\ last' = reply(<<"admin_list">>, FALSE)
            /\ outcome = "ok"
            /\ UNCHANGED <<ADMINS, file, failures>>
       ELSE IF ~(0 <= idx /\ idx < Len(admin_list))
       THEN /\ last' = reply(<<"admin_list", "invalid_number">>, FALSE)
            /\ outcome = "ok"
            /\ UNCHANGED <<ADMINS, file, failures>>
       ELSE IF admin_list[idx + 1] \in SUPER_ADMINS /\ u \notin SUPER_ADMINS
       THEN /\ last' = reply(<<"admin_list", "cannot_remove_super">>, FALSE)
            /\ outcome = "ok"
            /\ UNCHANGED <<ADMINS, file, failures>>
       ELSE /\ ADMINS' = ADMINS \ {admin_list[idx + 1]}
            /\ file' = save_config(ORIGIN_CHATS, DESTINATION_CHATS, ADMINS', file, outcome)
            /\ failures' = failures + (IF SaveRaises(outcome) THEN 1 ELSE 0)
            /\ last' = IF SaveRaises(outcome)
                       THEN reply(<<"admin_list">>, TRUE)
                       ELSE reply(<<"admin_list", "removed">>, FALSE)
    /\ fwd' = NoForward
    /\ UNCHANGED <<phase, ORIGIN_CHATS, DESTINATION_CHATS, IS_PAUSED, conversations>>

\* lines 257-265
pause(u, outcome) ==
    /\ Ready
    /\ may_fail(outcome)
    /\ IF ~check_admin(u)
       THEN /\ last' = Handled(u, "pause", "pause", <<"permission_denied">>, FALSE)
            /\ outcome = "ok"
            /\ UNCHANGED <<IS_PAUSED, file, failures>>
       ELSE /\ IS_PAUSED' = TRUE
            /\ file' = save_config(ORIGIN_CHATS, DESTINATION_CHATS, ADMINS, file, outcome)
            /\ failures' = failures + (IF SaveRaises(outcome) THEN 1 ELSE 0)
            /\ last' = IF SaveRaises(outcome)
                       THEN Handled(u, "pause", "pause", <<>>, TRUE)
                       ELSE Handled(u, "pause", "pause", <<"paused">>, FALSE)
    /\ fwd' = NoForward
    /\ UNCHANGED <<phase, ORIGIN_CHATS, DESTINATION_CHATS, ADMINS, conversations>>

\* lines 267-275
resume(u, outcome) ==
    /\ Ready
    /\ may_fail(outcome)
    /\ IF ~check_admin(u)
       THEN /\ last' = Handled(u, "resume", "resume", <<"permission_denied">>, FALSE)
            /\ outcome = "ok"
            /\ UNCHANGED <<IS_PAUSED, file, failures>>
       ELSE /\ IS_PAUSED' = FALSE
            /\ file' = save_config(ORIGIN_CHATS, DESTINATION_CHATS, ADMINS, file, outcome)
            /\ failures' = failures + (IF SaveRaises(outcome) THEN 1 ELSE 0)
            /\ last' = IF SaveRaises(outcome)
                       THEN Handled(u, "resume", "resume", <<>>, TRUE)
                       ELSE Handled(u, "resume", "resume", <<"resumed">>, FALSE)
    /\ fwd' = NoForward
    /\ UNCHANGED <<phase, ORIGIN_CHATS, DESTINATION_CHATS, ADMINS, conversations>>

\* lines 277-289
status(u) ==
    /\ Ready
    /\ last' = Handled(u, "status", "status",
                       IF check_admin(u) THEN <<"status">> ELSE <<"permission_denied">>,
                       FALSE)
    /\ fwd' = NoForward
    /\ UNCHANGED <<phase, file, cfgvars, conversations, failures>>

\* ------------------------------------------------------------ forwarding

\* "[Alpha]" (line 300)
Marker == <<"[", "A", "l", "p", "h", "a", "]">>

\* lines 84-88, in the dict's order; a replacement is kept as its words
TEXT_RULES ==
    << [pattern |-> <<"fa", "bu", "xin", "tui", "wen">>,
        replacement |-> <<"posted", " ", "a", " ", "new", " ", "tweet">>],
       [pattern |-> <<"zhuan", "fa", "le", "tui", "wen">>,
        replacement |-> <<"retweeted", " ", "a", " ", "tweet">>],
       [pattern |-> <<"yin", "yong", "le", "tui", "wen">>,
        replacement |-> <<"quoted", " ", "a", " ", "tweet">>] >>

\* the rule loop had it no break: every rule whose pattern occurs is applied
processed_text_all_rules(message_text) ==
    LET hits == {i \in 1..Len(TEXT_RULES) : Contains(message_text, TEXT_RULES[i].pattern)}
        apply(text, i) == Replace(text, TEXT_RULES[i].pattern, TEXT_RULES[i].replacement)
    IN IF hits = {} THEN NoText
       ELSE apply(apply(apply(message_text, 1), 2), 3)

\* lines 304-310: the text to forward, or NoText when no rule's pattern occurs
processed_text(message_text) ==
    LET hits == {i \in 1..Len(TEXT_RULES) : Contains(message_text, TEXT_RULES[i].pattern)}
        first == CHOOSE i \in hits : \A j \in hits : i <= j
    IN IF hits = {} THEN NoText
       ELSE Replace(message_text, TEXT_RULES[first].pattern, TEXT_RULES[first].replacement)

\* the chats channel posts arrive from, and their texts
ChatIds == {1, 5}

ChannelTexts ==
    { Marker \o TEXT_RULES[2].pattern \o TEXT_RULES[1].pattern \o <<" ">>
          \o TEXT_RULES[1].pattern,
      Marker \o <<" ">> \o TEXT_RULES[3].pattern \o <<" ", "x">>,
      Marker \o <<" ", "x">>,
      <<"x">> \o Marker \o TEXT_RULES[1].pattern }

\* processed_text of every text that arrives, computed once
Transformed == [t \in ChannelTexts |-> processed_text(t)]

\* process_message had it not looked at IS_PAUSED
passes_gate_unpaused(chat_id, message_text) ==
    /\ ~(ORIGIN_CHATS = {} \/ DESTINATION_CHATS = {})
    /\ chat_id \in ORIGIN_CHATS
    /\ StartsWith(message_text, Marker)
    /\ Transformed[message_text] # NoText

\* lines 293-301 and 309: whether process_message goes on to the delivery loop
passes_gate(chat_id, message_text) ==
    /\ ~(IS_PAUSED \/ ORIGIN_CHATS = {} \/ DESTINATION_CHATS = {})
    /\ chat_id \in ORIGIN_CHATS
    /\ StartsWith(message_text, Marker)
    /\ Transformed[message_text] # NoText

\* how often dest_id occurs in a sequence of destinations
Count(q, dest_id) == Cardinality({i \in 1..Len(q) : q[i] = dest_id})

\* the delivery loop had the try enclosed the loop: the first send_message that
\* raises ends it
RECURSIVE deliver_abort(_, _)
deliver_abort(order, failing) ==
    IF order = <<>> THEN <<>>
    ELSE IF Head(order) \in failing THEN <<Head(order)>>
    ELSE <<Head(order)>> \o deliver_abort(Tail(order), failing)

\* lines 313-318: the delivery loop over the destinations in the order the set
\* gives them; send_message raises for those in failing.  The destinations tried,
\* in order
RECURSIVE deliver(_, _)
deliver(order, failing) ==
    IF order = <<>> THEN <<>>
    ELSE <<Head(order)>> \o deliver(Tail(order), failing)

\* how many calls of send_message may raise for one channel post
MaxSendFailures == 1

\* the sets of destinations send_message may raise for
Failing(dests) == {f \in SUBSET dests : Cardinality(f) <= MaxSendFailures}

\* every channel id the configuration can hold
AllIds ==
    UNION {Parsed[t].ids : t \in UserTexts}
        \cup UNION {f.origin_chats \cup f.destination_chats : f \in InitFiles}

\* what the delivery loop can do for each set of destinations, computed once: how
\* often each destination was tried and which of the tries raised
Deliveries ==
    [D \in SUBSET AllIds |->
        { LET tried == deliver(order, failing) IN
          [attempts |-> [d \in D |-> Count(tried, d)],
           failed |-> failing \cap SeqToSet(tried)] :
          order \in Orders(D), failing \in Failing(D) }]

\* lines 291-318: an update from a channel (line 358 hands process_message only
\* those); message_text is what line 299 reads from it
process_message(chat_id, message_text) ==
    /\ Ready
    /\ IF passes_gate(chat_id, message_text)
       THEN fwd' \in { [chat |-> chat_id, source |-> message_text,
                         text |-> Transformed[message_text],
                         attempts |-> o.attempts, failed |-> o.failed] :
                        o \in Deliveries[DESTINATION_CHATS] }
       ELSE fwd' = NoForward
    /\ last' = Handled(NoText, "channel_post", "process_message", <<>>, FALSE)
    /\ UNCHANGED <<phase, file, cfgvars, conversations, failures>>

\* ---------------------------------------------------------- specification

Next ==
    \/ Startup
    \/ Restart
    \/ \E u \in Users, args \in StartArgs("set_origin") : set_origin_start(u, args)
    \/ \E u \in Users, args \in StartArgs("set_destination") : set_destination_start(u, args)
    \/ \E u \in Users, args \in StartArgs("add_admin") : add_admin_start(u, args)
    \/ \E u \in Users, t \in UserTexts, o \in SaveOutcomes : set_origin_handle(u, t, o)
    \/ \E u \in Users, t \in UserTexts, o \in SaveOutcomes : set_destination_handle(u, t, o)
    \/ \E u \in Users, t \in UserTexts, o \in SaveOutcomes : add_admin_handle(u, t, o)
    \/ \E u \in Users : cancel(u)
    \/ \E u \in Users, c \in {"set_origin", "set_destination", "add_admin", "text"} :
          unhandled(u, c)
    \/ \E l \in Orders(removable), u \in Users, args \in RmArgs, o \in SaveOutcomes :
          rm_admin(u, args, l, o)
    \/ \E u \in Users, o \in SaveOutcomes : pause(u, o)
    \/ \E u \in Users, o \in SaveOutcomes : resume(u, o)
    \/ \E u \in Users : status(u)
    \/ \E c \in ChatIds, t \in ChannelTexts : process_message(c, t)

Spec == Init /\ [][Next]_vars

\* ----------------------------------------------------------------- claims

\* the roles as the specification gives them: a super admin or a member of admins
IsPrivileged(u) == u \in SUPER_ADMINS \/ u \in ADMINS

PrivilegedCommands ==
    {"set_origin", "set_destination", "add_admin", "rm_admin", "pause", "resume", "status"}

\* the step handles an update (the process neither starts nor stops in it)
HandlerStep == phase = "running" /\ phase' = "running"

\* C1: a privileged command invoked by a user who is neither a super admin nor in
\* the admin set leaves origins, destinations, admins, the pause flag and
\* config.json as they were, and opens no dialog.
C1_DeniedChangesNothing ==
    [][ (HandlerStep /\ last'.cmd \in PrivilegedCommands /\ ~IsPrivileged(last'.user))
            => UNCHANGED <<cfgvars, file, conversations>> ]_vars

\* C1 witness: every privileged command is denied to the user who is not an admin
\* in some reachable state
C1_Witness ==
    /\ last.cmd \in {"pause", "rm_admin"}
    /\ ~IsPrivileged(last.user)
    /\ last.replies = <<"permission_denied">>
    /\ ORIGIN_CHATS # {}
    /\ DESTINATION_CHATS # {}

EntryHandlers == {"set_origin_start", "set_destination_start", "add_admin_start"}

C4_SuperAdminsStay ==
    [][ HandlerStep => (SUPER_ADMINS \cap ADMINS) \subseteq ADMINS' ]_vars

\* C4 witness: rm_admin removed an admin while the super admin was in the set
C4_Witness ==
    /\ last.op = "rm_admin"
    /\ last.replies = <<"admin_list", "removed">>
    /\ SUPER_ADMINS \subseteq ADMINS

\* C5: the configuration load_config produces at startup has every super admin in
\* its admin set, whatever record it read.
C5_LoadedAdminsHoldSuperAdmins ==
    (last.op = "load_config" /\ phase = "running") => SUPER_ADMINS \subseteq ADMINS

\* C6: load_config never fails: with config.json absent or malformed it gives empty
\* origins, empty destinations and the super admins as admins, and startup goes on.
C6_LoadNeverFails ==
    (last.op = "load_config" /\ file.kind \in {"absent", "malformed"}) =>
        /\ phase = "running"
        /\ ORIGIN_CHATS = {}
        /\ DESTINATION_CHATS = {}
        /\ ADMINS = SUPER_ADMINS

\* the destinations send_message was called for while the last update was handled
Attempted == {d \in DOMAIN fwd.attempts : fwd.attempts[d] > 0}

\* C7: an attempt to deliver is made only for a message from a chat in the origins,
\* handled while the bot is not paused and destinations is not empty; a message
\* handled while paused, from another chat, or with no destinations causes none.
C7_GatedMessageNotDelivered ==
    (last.op = "process_message" /\ Attempted # {}) =>
        /\ ~IS_PAUSED
        /\ fwd.chat \in ORIGIN_CHATS
        /\ DESTINATION_CHATS # {}

\* C7 witness: a message was handled while the bot was paused with origins and
\* destinations set, and nothing was attempted
C7_Witness ==
    /\ last.op = "process_message"
    /\ IS_PAUSED
    /\ ORIGIN_CHATS # {}
    /\ DESTINATION_CHATS # {}
    /\ Attempted = {}

\* C8: for a message that passed the gate and matched a rule, send_message was
\* called exactly once for every destination and for nothing else, whichever of the
\* calls raised.
C8_EachDestinationAttemptedOnce ==
    (last.op = "process_message" /\ fwd # NoForward) =>
        /\ DOMAIN fwd.attempts = DESTINATION_CHATS
        /\ \A d \in DESTINATION_CHATS : fwd.attempts[d] = 1

\* C8 witness: of three destinations one failed and each was attempted once
C8_Witness ==
    /\ last.op = "process_message"
    /\ Cardinality(DESTINATION_CHATS) = 3
    /\ Cardinality(fwd.failed) = 1
    /\ \A d \in DESTINATION_CHATS : fwd.attempts[d] = 1

\* what the texts users send mean as lists of channel ids, written out: ok when
\* every token is an integer, and then the set of those integers
Meaning(t) ==
    IF t = <<"1", " ", " ", "1">> THEN [ok |-> TRUE, ids |-> {1}]
    ELSE IF t = <<"1", " ", "-", "1", " ", "2">> THEN [ok |-> TRUE, ids |-> {1, 0 - 1, 2}]
    ELSE [ok |-> FALSE, ids |-> {}]

\* C9: a SET_ORIGIN (SET_DESTINATION) payload whose tokens are all integers makes
\* the origins (destinations) exactly the set of those integers and leaves the
\* other set, the admins and the pause flag alone; a payload with a token that is no
\* integer leaves origins, destinations, admins, pause flag and config.json alone.
C9_SetReplacesOrAborts ==
    [][ (HandlerStep /\ last'.op \in {"set_origin_handle", "set_destination_handle"}) =>
          \A t \in UserTexts, o \in SaveOutcomes :
             /\ set_origin_handle(last'.user, t, o) =>
                   IF Meaning(t).ok
                   THEN /\ ORIGIN_CHATS' = Meaning(t).ids
                        /\ UNCHANGED <<DESTINATION_CHATS, ADMINS, IS_PAUSED>>
                   ELSE UNCHANGED <<cfgvars, file>>
             /\ set_destination_handle(last'.user, t, o) =>
                   IF Meaning(t).ok
                   THEN /\ DESTINATION_CHATS' = Meaning(t).ids
                        /\ UNCHANGED <<ORIGIN_CHATS, ADMINS, IS_PAUSED>>
                   ELSE UNCHANGED <<cfgvars, file>> ]_vars

\* C9 witness: the destinations {-1, 1, 2} were replaced by {1}, not merged with it
C9_Witness ==
    /\ last.op = "set_destination_handle"
    /\ last.replies = <<"destinations_set">>
    /\ DESTINATION_CHATS = {1}
    /\ ORIGIN_CHATS = {1}
    /\ file.destination_chats = {1}

\* config.json as save_config writes it for the configuration in memory
Persisted == ObjectFile(CONFIG_KEYS, ORIGIN_CHATS, DESTINATION_CHATS, ADMINS)

\* C10: a SET_ORIGIN (SET_DESTINATION) payload that is applied leaves the
\* configuration with exactly its ids and config.json as the record of that
\* configuration, and applied to the state it left (the same ids a second time) it
\* changes neither.
C10_SetIsIdempotent ==
    [][ (HandlerStep /\ last'.replies \in {<<"origins_set">>, <<"destinations_set">>}) =>
          \A t \in UserTexts :
             /\ set_origin_handle(last'.user, t, "ok") =>
                   /\ ORIGIN_CHATS' = Meaning(t).ids
                   /\ file' = Persisted'
                   /\ (ORIGIN_CHATS = Meaning(t).ids /\ file = Persisted)
                         => UNCHANGED <<cfgvars, file>>
             /\ set_destination_handle(last'.user, t, "ok") =>
                   /\ DESTINATION_CHATS' = Meaning(t).ids
                   /\ file' = Persisted'
                   /\ (DESTINATION_CHATS = Meaning(t).ids /\ file = Persisted)
                         => UNCHANGED <<cfgvars, file>> ]_vars

\* C10 witness: the origins were set to the ids an earlier payload had set and
\* saved, and the record is still the record of the configuration
C10_Witness ==
    /\ last.op = "set_origin_handle"
    /\ last.replies = <<"origins_set">>
    /\ last.again
    /\ ORIGIN_CHATS = {1}
    /\ DESTINATION_CHATS = {-1, 1, 2}
    /\ file = Persisted

\* C11: an update handled for one sender (a command, a text, a channel post) leaves
\* the dialog of every other user as it was: while A's dialog is open, nothing B
\* sends is taken as A's payload or changes the state or kind of A's dialog.
C11_OthersDialogUntouched ==
    [][ HandlerStep =>
          \A A \in Users : A # last'.user => conversations'[A] = conversations[A] ]_vars

\* C11 witness: B's text was consumed by B's own dialog while A's dialog stayed open
C11_Witness ==
    /\ last.op = "set_origin_handle"
    /\ last.user = <<"a">>
    /\ last.replies = <<"origins_set">>
    /\ conversations[<<"r">>] = ADD_ADMIN

\* the replies that acknowledge a mutation as done
SuccessAcks == {"origins_set", "destinations_set", "admin_added", "removed", "paused", "resumed"}

Acknowledged(h) == \E i \in 1..Len(h.replies) : h.replies[i] \in SuccessAcks

\* C12: when a mutating command (set_origin, set_destination, add_admin, rm_admin
\* with a valid number, pause, resume) has acknowledged success, config.json holds
\* the whole configuration: its origins, destinations and admins are those in
\* memory (save_config ran, and did not raise, before the reply was sent).
C12_AcknowledgedIsPersisted ==
    Acknowledged(last) => file = Persisted

\* C12 witness: a removal was acknowledged after an earlier save had failed, and
\* the record holds the configuration in memory
C12_Witness ==
    /\ last.op = "rm_admin"
    /\ last.replies = <<"admin_list", "removed">>
    /\ failures = 1
    /\ file = Persisted

\* C13: a mutating command whose save_config raises answers its sender with a
\* failure reply and no acknowledgement, keeps the new value in memory and leaves
\* config.json as it was.
C13_FailedSaveReportedRecordKept ==
    [][ (HandlerStep /\ failures' > failures) =>
          /\ last'.replies # <<>>
          /\ last'.replies[Len(last'.replies)] = "error"
          /\ ~Acknowledged(last')
          /\ file' = file ]_vars

\* what Transform is to yield for the texts that arrive, written out: nothing
\* (NoText) for a text that does not start with "[Alpha]" or holds no pattern, and
\* otherwise the text with the first matching rule's pattern replaced throughout
Expected(t) ==
    IF t = <<"[", "A", "l", "p", "h", "a", "]",
             "zhuan", "fa", "le", "tui", "wen", "fa", "bu", "xin", "tui", "wen", " ",
             "fa", "bu", "xin", "tui", "wen">>
    THEN <<"[", "A", "l", "p", "h", "a", "]",
           "zhuan", "fa", "le", "tui", "wen", "posted", " ", "a", " ", "new", " ", "tweet",
           " ", "posted", " ", "a", " ", "new", " ", "tweet">>
    ELSE IF t = <<"[", "A", "l", "p", "h", "a", "]", " ",
                  "yin", "yong", "le", "tui", "wen", " ", "x">>
    THEN <<"[", "A", "l", "p", "h", "a", "]", " ",
           "quoted", " ", "a", " ", "tweet", " ", "x">>
    ELSE NoText

ExpectedOf == [t \in ChannelTexts |-> Expected(t)]

\* C14: a text that does not start with "[Alpha]" or in which no rule's pattern
\* occurs yields nothing (it is never forwarded); any other text, handled with the
\* gate open, goes on to be forwarded, and what is forwarded is the text with every
\* occurrence of the pattern of the first rule, in table order, whose pattern occurs
\* replaced by that rule's replacement, patterns of later rules left as they were.
C14_TransformFirstRuleOnly ==
    /\ fwd # NoForward =>
          /\ ExpectedOf[fwd.source] # NoText
          /\ fwd.text = ExpectedOf[fwd.source]
    /\ \A c \in ChatIds, t \in ChannelTexts :
          (~IS_PAUSED /\ c \in ORIGIN_CHATS /\ DESTINATION_CHATS # {}
              /\ ExpectedOf[t] # NoText) => passes_gate(c, t)

\* C14 witness: the text holding the patterns of the second and of the first rule
\* was forwarded with both occurrences of the first rule's pattern replaced and the
\* second rule's pattern kept
C14_Witness ==
    /\ last.op = "process_message"
    /\ fwd.source = <<"[", "A", "l", "p", "h", "a", "]",
                      "zhuan", "fa", "le", "tui", "wen", "fa", "bu", "xin", "tui", "wen", " ",
                      "fa", "bu", "xin", "tui", "wen">>
    /\ fwd.text = <<"[", "A", "l", "p", "h", "a", "]",
                    "zhuan", "fa", "le", "tui", "wen",
                    "posted", " ", "a", " ", "new", " ", "tweet", " ",
                    "posted", " ", "a", " ", "new", " ", "tweet">>

\* C15: only a super admin makes the admin set grow.  /add_admin from anyone else,
\* admin or not, opens no dialog and leaves the admin set and config.json alone; a
\* text starting with "@" that a super admin's ADD_ADMIN dialog consumes adds the
\* handle after the "@" and removes no admin.
C15_OnlySuperAdminsAddAdmins ==
    [][ HandlerStep =>
          LET u == last'.user IN
          /\ ~(ADMINS' \subseteq ADMINS) => u \in SUPER_ADMINS
          /\ (last'.cmd = "add_admin" /\ u \notin SUPER_ADMINS) =>
                /\ conversations'[u] # ADD_ADMIN
                /\ conversations' = conversations
                /\ UNCHANGED <<ADMINS, file>>
          /\ last'.op = "add_admin_handle" =>
                \A t \in UserTexts, o \in SaveOutcomes :
                   (add_admin_handle(u, t, o) /\ Head(t) = "@") =>
                       /\ u \in SUPER_ADMINS
                       /\ ADMINS' = ADMINS \cup {Tail(t)} ]_vars

\* C15 witness: /add_admin was denied to a regular admin
C15_Witness ==
    /\ last.op = "add_admin_start"
    /\ last.user \in ADMINS \ SUPER_ADMINS
    /\ last.replies = <<"only_super_admins">>
    /\ conversations[last.user] = END

\* C16: /cancel from a user whose dialog is open closes the dialog and leaves
\* origins, destinations, admins, pause flag and config.json as they were; a text
\* from a user whose dialog is closed is taken by no handler and changes nothing.
C16_CancelClosesDialog ==
    [][ HandlerStep =>
          LET u == last'.user IN
          /\ (last'.cmd = "cancel" /\ conversations[u] # END) =>
                /\ conversations'[u] = END
                /\ UNCHANGED <<cfgvars, file>>
          /\ (last'.cmd = "text" /\ conversations[u] = END) =>
                /\ last'.op = "none"
                /\ UNCHANGED <<cfgvars, file, conversations>> ]_vars

\* C16 witness: the super admin cancelled a dialog with origins and admins set
C16_Witness ==
    /\ last.op = "cancel"
    /\ last.replies = <<"cancelled">>
    /\ conversations[last.user] = END
    /\ ORIGIN_CHATS # {}
    /\ file.kind = "object"

\* the acknowledgement a handled update ended with ("none" when it did not)
Ack(h) ==
    IF h.replies # <<>> /\ h.replies[Len(h.replies)] \in SuccessAcks
    THEN h.replies[Len(h.replies)] ELSE "none"

\* the field of the configuration each acknowledgement is about
FieldOf(ack) ==
    IF ack = "origins_set" THEN "origins"
    ELSE IF ack = "destinations_set" THEN "destinations"
    ELSE IF ack \in {"admin_added", "removed"} THEN "admins"
    ELSE IF ack \in {"paused", "resumed"} THEN "paused"
    ELSE "none"

StateOf(op) ==
    IF op = "set_origin_handle" THEN SET_ORIGIN
    ELSE IF op = "set_destination_handle" THEN SET_DESTINATION
    ELSE ADD_ADMIN

C19_ChangeNeedsPrivilegeAtCommit ==
    [][ (HandlerStep /\ <<ORIGIN_CHATS, DESTINATION_CHATS>>' # <<ORIGIN_CHATS, DESTINATION_CHATS>>)
            => IsPrivileged(last'.user) ]_vars

\* C20: a start that finds the record a save_config wrote comes up with exactly the
\* origins, destinations and admins of that record, and every start comes up with
\* the pause flag cleared, whether or not the bot was paused when it stopped.
C20_RestartRestoresSaved ==
    [][ (phase = "boot" /\ phase' = "running") =>
          /\ ~IS_PAUSED'
          /\ (file.kind = "object" /\ file.keys = CONFIG_KEYS) => Persisted' = file ]_vars

\* C20 witness: the bot came up with origins that only a payload it saved before
\* the restart can have put into the record, and is not paused
C20_Witness ==
    /\ last.op = "load_config"
    /\ phase = "running"
    /\ ORIGIN_CHATS = {-1, 1, 2}
    /\ <<"b">> \in ADMINS
    /\ ~IS_PAUSED

====
